---- MODULE Spec2Model ----
(***************************************************************************)
(* Proportional Veto Core playground: the library functions of pvc.ts     *)
(* (veto-coalition search, successive-elimination solver, validator) and  *)
(* the page's handlers over its stored state.                              *)
(*                                                                         *)
(* Conventions.  JavaScript arrays are sequences; array indices, voter     *)
(* indices and alternative indices keep the code's 0-based values, so the  *)
(* element the code calls x[i] is x[i + 1] here.  A string is a TLA+       *)
(* string, '' is "".  A function that can throw returns a record with a   *)
(* field threw.  A double that the code obtains as a quotient of integers  *)
(* is kept as the exact fraction [num, den]; den = 0 stands for NaN (0/0). *)
(***************************************************************************)
EXTENDS Integers, Sequences, FiniteSets, TLC

(***************************************************************************)
(* Bounds of the exploration.                                              *)
(***************************************************************************)
MaxM == 4
MaxN == 4
MaxCells == 8
MaxEdits == 1
MaxValidated == 3
MaxGenerated == 28
MaxSearchVoters == 32
MaxVisits == 31
MaxBetween == 1
LambdaSteps == 2

(***************************************************************************)
(* Small array helpers (Array.prototype.indexOf, Set insertion order).     *)
(***************************************************************************)
Range(s) == {s[i] : i \in 1..Len(s)}

Abs(x) == IF x < 0 THEN -x ELSE x

\* s.indexOf(x): the 0-based index of the first occurrence, or -1
IndexOf(s, x) ==
  IF \E i \in 1..Len(s) : s[i] = x
  THEN (CHOOSE i \in 1..Len(s) : s[i] = x /\ \A j \in 1..(i - 1) : s[j] # x) - 1
  ELSE -1

\* Array.from(new Set(s)): the distinct elements of s in order of first occurrence
AddNew(front, last) ==
  IF \E i \in 1..Len(front) : front[i] = last THEN front ELSE Append(front, last)

RECURSIVE Dedup(_)
Dedup(s) ==
  IF s = <<>> THEN <<>>
  ELSE AddNew(Dedup(SubSeq(s, 1, Len(s) - 1)), s[Len(s)])

(***************************************************************************)
(* generateAlternatives: String.fromCharCode(97 + i) for i = 0..m-1.       *)
(***************************************************************************)
CharCodeBase == 97

\* the characters with codes 97..126
CharTable ==
  << "a", "b", "c", "d", "e", "f", "g", "h", "i", "j", "k", "l", "m",
     "n", "o", "p", "q", "r", "s", "t", "u", "v", "w", "x", "y", "z",
     "{", "|", "}", "~" >>

fromCharCode(code) == CharTable[code - CharCodeBase + 1]

generateAlternatives(m_) == [i \in 1..m_ |-> fromCharCode(CharCodeBase + (i - 1))]

(***************************************************************************)
(* The preference matrix: preferences[rank][voter], m rows of n cells.     *)
(***************************************************************************)
\* preferences[0]?.length || 0
ColumnCount(preferences_) ==
  IF Len(preferences_) = 0 THEN 0 ELSE Len(preferences_[1])

\* altToIndex.get(alt) ?? -1, after alternatives.forEach((alt, idx) => set(alt, idx))
altToIndex(alternatives, alt) ==
  IF \E i \in 1..Len(alternatives) : alternatives[i] = alt
  THEN (CHOOSE i \in 1..Len(alternatives) :
          /\ alternatives[i] = alt
          /\ \A j \in (i + 1)..Len(alternatives) : alternatives[j] # alt) - 1
  ELSE -1

\* what stands in a voter's indices for "preferences[rank][voter]" with rank
\* beyond the last row of the matrix: preferences[rank] is undefined and the
\* read of its element throws a TypeError
RowMissing == -2

\* one voter's column as indices (-1 for a cell that is no alternative); the
\* loop reads rank 0..m-1 in order, m the number of alternatives
voterPrefsOf(preferences_, alternatives, voter) ==
  [rank \in 1..Len(alternatives) |->
     IF rank > Len(preferences_) THEN RowMissing
     ELSE altToIndex(alternatives, preferences_[rank][voter + 1])]

\* whether the conversion of a voter's column stops before its end
Unconverted(voterPrefs) == -1 \in Range(voterPrefs) \/ RowMissing \in Range(voterPrefs)

(***************************************************************************)
(* validateVoterPreferences                                                *)
(***************************************************************************)
\* !pref for a string entry or a missing (undefined) entry
Undefined == "undefined"

Falsy(pref) == pref = "" \/ pref = Undefined

\* validateVoterPreferences without "if (uniquePrefs.size !== voterPrefs.length)"
validateVoterPreferences_noSizeCheck(voterPrefs, alternatives) ==
  IF Len(voterPrefs) # Len(alternatives) THEN FALSE
  ELSE IF \E i \in 1..Len(voterPrefs) : Falsy(voterPrefs[i]) THEN FALSE
  ELSE \A i \in 1..Len(voterPrefs) : voterPrefs[i] \in Range(alternatives)

validateVoterPreferences(voterPrefs, alternatives) ==
  IF Len(voterPrefs) # Len(alternatives) THEN FALSE
  ELSE IF Cardinality(Range(voterPrefs)) # Len(voterPrefs) THEN FALSE
  ELSE IF \E i \in 1..Len(voterPrefs) : Falsy(voterPrefs[i]) THEN FALSE
  ELSE \A i \in 1..Len(voterPrefs) : voterPrefs[i] \in Range(alternatives)

(***************************************************************************)
(* Doubles.  veto_power = T_size * (m-1) / n is the quotient of two small  *)
(* integers and is compared with the integer veto_size.  The quotient is   *)
(* kept exact; the rounding of the division is below 2^-52 relative, far   *)
(* under the distance 1/n that separates a non-integer quotient from an    *)
(* integer, so the comparisons below decide as the doubles do.             *)
(***************************************************************************)
\* Number.EPSILON = 2^-52, the default tolerance
EpsilonExponent == 52

\* num1 > num2 for num1 = q.num / q.den (Infinity when den = 0 < num, NaN when 0/0)
GreaterThan(q, k) ==
  IF q.den = 0 THEN q.num > 0 ELSE q.num > k * q.den

\* Math.abs(num1 - num2) < tolerance with num1 = q.num / q.den, num2 = k:
\* |num - k*den| * 2^52 < den, evaluated without leaving 32 bits
areNumbersApproximatelyEqual(q, k) ==
  IF q.den = 0 THEN FALSE
  ELSE LET diff == Abs(q.num - k * q.den)
           half == 2 ^ (EpsilonExponent \div 2)
       IN IF diff = 0 THEN TRUE
          ELSE (((q.den - 1) \div diff) \div half) \div half >= 1

(***************************************************************************)
(* checkVetoCoalition                                                      *)
(***************************************************************************)
\* the loop "for (let i = 1; i < coalitionProfiles.length; i++)": i is the
\* position (1-based here) of the next coalition member to intersect with
RECURSIVE intersectOthers(_, _, _, _)
intersectOthers(coalitionProfiles, targetAltIndex, i, preferredByAll) ==
  IF i > Len(coalitionProfiles)
  THEN [targetMissing |-> FALSE, preferredByAll |-> preferredByAll]
  ELSE LET voterPrefs == coalitionProfiles[i]
           targetRankInVoter == IndexOf(voterPrefs, targetAltIndex)
       IN IF targetRankInVoter = -1
          THEN [targetMissing |-> TRUE, preferredByAll |-> <<>>]
          ELSE LET voterPreferred == Range(SubSeq(voterPrefs, 1, targetRankInVoter))
                   newPreferredByAll ==
                     SelectSeq(preferredByAll, LAMBDA alt : alt \in voterPreferred)
               IN intersectOthers(coalitionProfiles, targetAltIndex, i + 1,
                                  newPreferredByAll)

\* vetoTest with veto_size = m - B_size - 1
vetoTest_offByOne(T_size_, B_size, m_, n_) ==
  LET veto_power == [num |-> T_size_ * (m_ - 1), den |-> n_]
      veto_size == m_ - B_size - 1
  IN GreaterThan(veto_power, veto_size)
       \/ areNumbersApproximatelyEqual(veto_power, veto_size)

\* vetoTest with "veto_power > veto_size" alone
vetoTest_strict(T_size_, B_size, m_, n_) ==
  LET veto_power == [num |-> T_size_ * (m_ - 1), den |-> n_]
      veto_size == m_ - B_size
  IN GreaterThan(veto_power, veto_size)

\* vetoTest with "areNumbersApproximatelyEqual(veto_power, veto_size)" alone
vetoTest_onlyEqual(T_size_, B_size, m_, n_) ==
  LET veto_power == [num |-> T_size_ * (m_ - 1), den |-> n_]
      veto_size == m_ - B_size
  IN areNumbersApproximatelyEqual(veto_power, veto_size)

\* veto_power > veto_size || areNumbersApproximatelyEqual(veto_power, veto_size)
vetoTest(T_size_, B_size, m_, n_) ==
  LET veto_power == [num |-> T_size_ * (m_ - 1), den |-> n_]
      veto_size == m_ - B_size
  IN GreaterThan(veto_power, veto_size)
       \/ areNumbersApproximatelyEqual(veto_power, veto_size)

NoVeto == [threw |-> FALSE, canVeto |-> FALSE, preferredAlternatives |-> <<>>]

CheckThrew == [threw |-> TRUE, canVeto |-> FALSE, preferredAlternatives |-> <<>>]

\* intersectAll with preferredByAll starting at slice(0, targetRankInFirst + 1)
intersectAll_inclusive(coalitionProfiles, targetAltIndex, targetRankInFirst) ==
  IF targetRankInFirst = -1
  THEN [targetMissing |-> TRUE, preferredByAll |-> <<>>]
  ELSE intersectOthers(coalitionProfiles, targetAltIndex, 2,
                       Dedup(SubSeq(coalitionProfiles[1], 1, targetRankInFirst + 1)))

\* the intersection loop, entered when the first member ranks the target at
\* targetRankInFirst; preferredByAll starts as the ranks above it
intersectAll(coalitionProfiles, targetAltIndex, targetRankInFirst) ==
  IF targetRankInFirst = -1
  THEN [targetMissing |-> TRUE, preferredByAll |-> <<>>]
  ELSE intersectOthers(coalitionProfiles, targetAltIndex, 2,
                       Dedup(SubSeq(coalitionProfiles[1], 1, targetRankInFirst)))

\* the veto condition and the result object, for the intersection found
vetoOutcome(inter, T_size_, alternatives, n_) ==
  IF inter.targetMissing THEN NoVeto
  ELSE [threw |-> FALSE,
        canVeto |-> vetoTest(T_size_, Len(inter.preferredByAll),
                             Len(alternatives), n_),
        preferredAlternatives |->
          [k \in 1..Len(inter.preferredByAll) |->
             alternatives[inter.preferredByAll[k] + 1]]]

\* checkVetoCoalition after the conversion of the members' columns
checkProfiles(targetAltIndex, coalitionProfiles, alternatives, n_) ==
  \* assert(index != -1) for every cell of every coalition member, or the
  \* TypeError of a row the matrix does not have
  IF \E i \in 1..Len(coalitionProfiles) : Unconverted(coalitionProfiles[i])
  THEN CheckThrew
  ELSE IF targetAltIndex = -1 THEN NoVeto
  ELSE vetoOutcome(intersectAll(coalitionProfiles, targetAltIndex,
                                IndexOf(coalitionProfiles[1], targetAltIndex)),
                   Len(coalitionProfiles), alternatives, n_)

checkVetoCoalition(alternative, coalition, preferences_, alternatives) ==
  IF Len(coalition) = 0 THEN NoVeto
  ELSE checkProfiles(altToIndex(alternatives, alternative),
                     [i \in 1..Len(coalition) |->
                        voterPrefsOf(preferences_, alternatives, coalition[i])],
                     alternatives, ColumnCount(preferences_))

(***************************************************************************)
(* computeVetoCoalition                                                    *)
(***************************************************************************)
\* 1 << k in 32-bit signed arithmetic (the shift count is taken modulo 32)
ShiftLeftOne(k) ==
  LET s == k % 32
  IN IF s = 31 THEN (-(2 ^ 30)) * 2 ELSE 2 ^ s

\* coalitionMask & (1 << voter), for a non-negative mask: bit 31, the sign
\* bit, is never set in one
BitSet(coalitionMask, voter) ==
  IF ShiftLeftOne(voter) < 0 THEN FALSE
  ELSE (coalitionMask \div ShiftLeftOne(voter)) % 2 = 1

\* coalitionOfMask with the loop "for (let voter = 1; voter < n; voter++)"
coalitionOfMask_fromOne(coalitionMask, n_) ==
  SelectSeq([i \in 1..(n_ - 1) |-> i], LAMBDA voter : BitSet(coalitionMask, voter))

\* the voters of a mask, pushed for voter = 0..n-1
coalitionOfMask(coalitionMask, n_) ==
  SelectSeq([i \in 1..n_ |-> i - 1], LAMBDA voter : BitSet(coalitionMask, voter))

NoneFound == [threw |-> FALSE, bestCoalition |-> <<>>, bestPreferred |-> <<>>]

SearchThrew == [threw |-> TRUE, bestCoalition |-> <<>>, bestPreferred |-> <<>>]

\* keepBest that keeps the first coalition found
keepBest_first(best, coalition, result) ==
  IF result.canVeto /\ Len(result.preferredAlternatives) > 0
       /\ best.bestCoalition = <<>>
  THEN [threw |-> FALSE, bestCoalition |-> coalition,
        bestPreferred |-> result.preferredAlternatives]
  ELSE best

\* "if (result.canVeto && result.preferredAlternatives.length > 0)"
keepBest(best, coalition, result) ==
  IF result.canVeto /\ Len(result.preferredAlternatives) > 0
  THEN [threw |-> FALSE, bestCoalition |-> coalition,
        bestPreferred |-> result.preferredAlternatives]
  ELSE best

\* the mask loop from coalitionMask on, with the best found so far
RECURSIVE maskLoop(_, _, _, _, _, _)
maskStep(coalitionMask, best, coalition, result, alternative, preferences_, alternatives, n_) ==
  IF result.threw THEN SearchThrew
  ELSE maskLoop(coalitionMask + 1, keepBest(best, coalition, result),
                alternative, preferences_, alternatives, n_)

maskLoop(coalitionMask, best, alternative, preferences_, alternatives, n_) ==
  IF ~(coalitionMask < ShiftLeftOne(n_)) THEN best
  ELSE maskStep(coalitionMask, best, coalitionOfMask(coalitionMask, n_),
                checkVetoCoalition(alternative, coalitionOfMask(coalitionMask, n_),
                                   preferences_, alternatives),
                alternative, preferences_, alternatives, n_)

\* the dashboard values and the returned object
vetoCoalitionResult(alternative, found, m_, n_) ==
  [threw |-> found.threw,
   coalition |-> found.bestCoalition,
   selectedAlternative |-> alternative,
   preferredAlternatives |-> found.bestPreferred,
   dashboardValues |->
     [T |-> Len(found.bestCoalition),
      T_size |-> Len(found.bestCoalition),
      v_T |-> [num |-> Len(found.bestCoalition) * (m_ - 1), den |-> n_],
      B |-> found.bestPreferred,
      lambda_B_over_P |-> [num |-> Len(found.bestPreferred), den |-> m_]]]

computeVetoCoalition(alternative, preferences_, alternatives, pvc_) ==
  vetoCoalitionResult(alternative,
                      maskLoop(1, NoneFound, alternative, preferences_,
                               alternatives, ColumnCount(preferences_)),
                      Len(alternatives), ColumnCount(preferences_))

(***************************************************************************)
(* computePVC: the successive-elimination solver.  Two versions exist in   *)
(* the repository: the one beside the veto search (computePVC) and the one *)
(* of src/lib/pvc.ts (computePVC_pvc_ts).  They share the rounds and       *)
(* differ in their assertions and in what an unknown symbol does.          *)
(* The state of a run is [remainingAlts, remainingCounts, threw];          *)
(* remainingCounts[alt] = 0 stands for a key the Map does not hold.        *)
(***************************************************************************)
RECURSIVE gcd(_, _)
gcd(a, b) == IF b = 0 THEN a ELSE gcd(b, a % b)

\* remainingAlts after the duplication loops: alt 0 q times, alt 1 q times, ...
duplicatedAlts(m_, reducedDenominator) ==
  [k \in 1..(m_ * reducedDenominator) |-> (k - 1) \div reducedDenominator]

\* i copies of x
Copies(x, i) == [k \in 1..i |-> x]

\* the voter's order over the remaining (duplicated) items
RECURSIVE remainingPrefsOf(_, _)
remainingPrefsOf(voterPrefs, remainingCounts) ==
  IF voterPrefs = <<>> THEN <<>>
  ELSE remainingPrefsOf(SubSeq(voterPrefs, 1, Len(voterPrefs) - 1), remainingCounts)
         \o Copies(voterPrefs[Len(voterPrefs)],
                   remainingCounts[voterPrefs[Len(voterPrefs)]])

\* a slice that takes the p_i most preferred items
sliceLast_fromTheTop(s, p_i) ==
  IF p_i = 0 \/ p_i >= Len(s) THEN s ELSE SubSeq(s, 1, p_i)

\* remainingPrefs.slice(-p_i): slice(-0) is slice(0), the whole array
sliceLast(s, p_i) ==
  IF p_i = 0 \/ p_i >= Len(s) THEN s ELSE SubSeq(s, Len(s) - p_i + 1, Len(s))

\* s.splice(index, 1) for a 0-based index
spliceOne(s, index) == SubSeq(s, 1, index) \o SubSeq(s, index + 2, Len(s))

\* removeOne that deletes the key whatever the count was
removeOne_alwaysDelete(st, altToRemove) ==
  LET index == IndexOf(st.remainingAlts, altToRemove)
  IN IF st.threw THEN st
     ELSE IF ~(Len(st.remainingAlts) > 0) THEN [st EXCEPT !.threw = TRUE]
     ELSE IF ~(index > -1) THEN [st EXCEPT !.threw = TRUE]
     ELSE [remainingAlts |-> spliceOne(st.remainingAlts, index),
           remainingCounts |-> [st.remainingCounts EXCEPT ![altToRemove] = 0],
           threw |-> FALSE]

\* the body of toEliminate.forEach
removeOne(st, altToRemove) ==
  LET index == IndexOf(st.remainingAlts, altToRemove)
      currentCount == st.remainingCounts[altToRemove]
  IN IF st.threw THEN st
     ELSE IF ~(Len(st.remainingAlts) > 0) THEN [st EXCEPT !.threw = TRUE]
     ELSE IF ~(index > -1) THEN [st EXCEPT !.threw = TRUE]
     ELSE [remainingAlts |-> spliceOne(st.remainingAlts, index),
           remainingCounts |->
             [st.remainingCounts EXCEPT
                ![altToRemove] = IF currentCount > 1 THEN currentCount - 1 ELSE 0],
           threw |-> FALSE]

\* toEliminate.forEach(...), from the k-th element on
RECURSIVE eliminateFrom(_, _, _)
eliminateFrom(st, toEliminate, k) ==
  IF k > Len(toEliminate) THEN st
  ELSE eliminateFrom(removeOne(st, toEliminate[k]), toEliminate, k + 1)

\* what the round of a voter removes
toEliminateOf(st, voterPrefs, p_i) ==
  sliceLast(remainingPrefsOf(voterPrefs, st.remainingCounts), p_i)

\* one round; roundStartAssert is pvc.ts's assert(remainingAlts.length > 1)
eliminationRound(st, voterPrefs, p_i, roundStartAssert) ==
  IF st.threw THEN st
  ELSE IF roundStartAssert /\ ~(Len(st.remainingAlts) > 1)
  THEN [st EXCEPT !.threw = TRUE]
  ELSE eliminateFrom(st, toEliminateOf(st, voterPrefs, p_i), 1)

\* the rounds for voter, voter + 1, ..., n - 1
RECURSIVE roundsFrom(_, _, _, _, _, _)
roundsFrom(st, profile, voter, n_, p_i, roundStartAssert) ==
  IF ~(voter < n_) THEN st
  ELSE roundsFrom(eliminationRound(st, profile[voter + 1], p_i, roundStartAssert),
                  profile, voter + 1, n_, p_i, roundStartAssert)

\* a numerator that is not reduced
reducedNumeratorOf_unreduced(m_, n_) == m_ - 1

reducedNumeratorOf(m_, n_) == (m_ - 1) \div gcd(m_ - 1, n_)

\* a denominator that is not reduced
reducedDenominatorOf_unreduced(m_, n_) == n_

reducedDenominatorOf(m_, n_) == n_ \div gcd(m_ - 1, n_)

initialRun(m_, n_) ==
  [remainingAlts |-> duplicatedAlts(m_, reducedDenominatorOf(m_, n_)),
   remainingCounts |-> [alt \in 0..(m_ - 1) |-> reducedDenominatorOf(m_, n_)],
   threw |-> FALSE]

SolverThrew == [threw |-> TRUE, result |-> <<>>]

\* "Collapse clones": the final assertion and the result
collapseClones(final, alternatives, finalAssert) ==
  IF final.threw THEN SolverThrew
  ELSE IF finalAssert /\ ~(Len(final.remainingAlts) > 0) THEN SolverThrew
  ELSE [threw |-> FALSE,
        result |-> [k \in 1..Len(Dedup(final.remainingAlts)) |->
                      alternatives[Dedup(final.remainingAlts)[k] + 1]]]

\* the first cell at which the conversion stops: the voters are converted in
\* order, and each voter's ranks in order
firstUnconverted(profile) ==
  LET voter == CHOOSE v \in 1..Len(profile) :
                 /\ Unconverted(profile[v])
                 /\ \A before \in 1..(v - 1) : ~Unconverted(profile[before])
      rank == CHOOSE r \in 1..Len(profile[voter]) :
                /\ profile[voter][r] < 0
                /\ \A before \in 1..(r - 1) : ~(profile[voter][before] < 0)
  IN profile[voter][rank]

\* the solver after the conversion of the matrix to the numeric profile
solveProfile(profile, alternatives, m_, n_, unknownThrows, roundStartAssert, finalAssert) ==
  IF \E v \in 1..n_ : Unconverted(profile[v])
  THEN (IF unknownThrows \/ firstUnconverted(profile) = RowMissing
        THEN SolverThrew
        ELSE [threw |-> FALSE, result |-> <<>>])
  ELSE collapseClones(roundsFrom(initialRun(m_, n_), profile, 0, n_,
                                 reducedNumeratorOf(m_, n_), roundStartAssert),
                      alternatives, finalAssert)

\* the common course of both versions
successiveElimination(preferences_, alternatives, unknownThrows, roundStartAssert, finalAssert) ==
  IF Len(alternatives) = 0 \/ ColumnCount(preferences_) = 0
  THEN [threw |-> FALSE, result |-> <<>>]
  ELSE solveProfile([v \in 1..ColumnCount(preferences_) |->
                       voterPrefsOf(preferences_, alternatives, v - 1)],
                    alternatives, Len(alternatives), ColumnCount(preferences_),
                    unknownThrows, roundStartAssert, finalAssert)

\* the solver beside the veto search: assert(index != -1), no round-start assertion
computePVC(preferences_, alternatives) ==
  successiveElimination(preferences_, alternatives, TRUE, FALSE, FALSE)

\* the solver of src/lib/pvc.ts: returns [] on an unknown symbol, asserts
\* remainingAlts.length > 1 at each round start and > 0 at the end
computePVC_pvc_ts(preferences_, alternatives) ==
  successiveElimination(preferences_, alternatives, FALSE, TRUE, TRUE)

(***************************************************************************)
(* The page (+page.svelte): its stored state and handlers.                 *)
(***************************************************************************)
VARIABLES
  m,                  \* number of alternatives
  n,                  \* number of voters
  preferences,        \* the m x n grid of cells
  pvc,
  selectedAlternative,
  vetoCoalition,
  preferredAlternatives,
  T,
  T_size,
  v_T,
  B,
  lambda_B_over_P,
  successivelyEliminatedAlternatives,
  lastOp,             \* the handler that ran last
  threw,              \* "none", or the library call that threw in it
  edits,              \* cell edits since the grid was last created or filled
  stage,              \* how far the session has got (see MayRun)
  pending,            \* << field, k >>: the m or n field holds a typed value
                      \* whose change event is still to come, and k handlers
                      \* have run since it was typed; NoInput otherwise
  checkedPrefs,       \* a call of validateVoterPreferences: its voterPrefs,
  checkedAlternatives, \* its alternatives
  checkedResult,      \* and what it returned: << >> before the call, << value >> after
  requestedLength,    \* a call of generateAlternatives: its m, counted in halves
  generatedAlternatives, \* and what it returned, as for checkedResult
  solverOfPvcTs,      \* a run of the solver: whether it is the one of src/lib/pvc.ts
  roundVoter,         \* the voter of its next round (n after the last round)
  elimination,        \* its [remainingAlts, remainingCounts, threw]
  eliminated,         \* toEliminate of its last round
  solverResult,       \* and what it returned, as for checkedResult
  searchVoters,       \* the mask loop of computeVetoCoalition: its n
  searchMask,         \* its coalitionMask
  searchVisits        \* the coalitions it has built so far, in order

pageVars ==
  << m, n, preferences, pvc, selectedAlternative, vetoCoalition,
     preferredAlternatives, T, T_size, v_T, B, lambda_B_over_P,
     successivelyEliminatedAlternatives >>

validatorVars == << checkedPrefs, checkedAlternatives, checkedResult >>

generatorVars == << requestedLength, generatedAlternatives >>

solverVars == << solverOfPvcTs, roundVoter, elimination, eliminated, solverResult >>

searchVars == << searchVoters, searchMask, searchVisits >>

vars ==
  << pageVars, lastOp, threw, edits, stage, pending, validatorVars,
     generatorVars, solverVars, searchVars >>

InitialM == 3

InitialN == 3

\* the number 0 as a stored double
Zero == [num |-> 0, den |-> 1]

\* Array(m).fill(null).map(() => Array(n).fill(''))
emptyMatrix(m_, n_) == [row \in 1..m_ |-> [col \in 1..n_ |-> ""]]

getAlternatives == generateAlternatives(m)

\* the column of a voter: preferences.map((row) => row[colIndex])
columnOf(preferences_, colIndex) ==
  [row \in 1..Len(preferences_) |-> preferences_[row][colIndex + 1]]

isColumnValid(colIndex) ==
  validateVoterPreferences(columnOf(preferences, colIndex), getAlternatives)

\* the elements of an array at the given (1-based) positions, in order
atPositions(alternatives, positions) ==
  [k \in 1..Len(positions) |-> alternatives[positions[k]]]

\* classify with the branches of the loop exchanged
classify_exchanged(result, alternatives) ==
  [threw |-> \E i \in 1..Len(alternatives) : result[i].threw,
   nonVetoableAlternatives |->
     atPositions(alternatives,
                 SelectSeq([i \in 1..Len(alternatives) |-> i],
                           LAMBDA i : Len(result[i].preferredAlternatives) > 0))]

\* the branches of the loop, given the result for each alternative
classify(result, alternatives) ==
  [threw |-> \E i \in 1..Len(alternatives) : result[i].threw,
   nonVetoableAlternatives |->
     atPositions(alternatives,
                 SelectSeq([i \in 1..Len(alternatives) |-> i],
                           LAMBDA i : ~(Len(result[i].preferredAlternatives) > 0)))]

\* the loop of the page's computePVC over the alternatives: the alternatives
\* for which computeVetoCoalition returns no preferred alternatives
vetoClassifier(preferences_, alternatives) ==
  classify([i \in 1..Len(alternatives) |->
              computeVetoCoalition(alternatives[i], preferences_, alternatives, <<>>)],
           alternatives)

\* the permutations of a sequence of distinct elements
Permutations_(s) ==
  {p \in [1..Len(s) -> Range(s)] : \A i, j \in 1..Len(s) : i # j => p[i] # p[j]}

\* what a user can type into a cell (maxlength 1)
TypedValues ==
  {""} \cup {fromCharCode(CharCodeBase + i) : i \in 0..(MaxM - 1)} \cup {"A"}

\* value.toLowerCase() on the typed values
toLowerCase(value) == IF value = "A" THEN "a" ELSE value

(***************************************************************************)
(* The sessions explored.  The user fills the grid (identically or         *)
(* shuffled), edits at most MaxEdits cells of a grid that is empty or      *)
(* filled identically, presses Compute PVC, clicks an alternative and      *)
(* clears the analysis, in this order, every step optional; stage is the   *)
(* furthest step taken.  A change of m or n is two events: the input       *)
(* event, on which bind:value assigns the variable (one field at a time,   *)
(* to at most MaxCells cells), and the change event, on which onMNChange   *)
(* runs.  Between the two the page is idle, with the new m or n beside the *)
(* old grid, and at most MaxBetween other handlers run; each visit of a    *)
(* field types one value, and none is typed after an edit or a click.  A   *)
(* change at the start, or right after such a change, leads to a fresh     *)
(* session; any other ends the session.                                    *)
(* The file holds a second script block (SpecSecond below) whose Compute   *)
(* PVC and click handlers differ.                                          *)
(***************************************************************************)
Created == "created"
ResizedOnce == "resized once"
Resized == "resized"
Identical == "identical"
Shuffled == "shuffled"
Edited == "edited"
Computed == "computed"
Clicked == "clicked"
Cleared == "cleared"
ResizedAgain == "resized again"
ComputedBySolver == "computed by the second script"
ClickedSecond == "clicked in the second script"

BeforeQueries == {Created, ResizedOnce, Resized, Identical, Shuffled, Edited}

\* no typed value waits for its change event
NoInput == << "", 0 >>

\* the stages at which a value may be typed into the m or n field
ResizeFrom ==
  {Created, ResizedOnce, Resized, Identical, Shuffled, Computed, Cleared, ComputedBySolver}

\* the stage after the change event of a resize
AfterResize ==
  IF stage = Created THEN ResizedOnce
  ELSE IF stage = ResizedOnce THEN Resized
  ELSE ResizedAgain

\* whether a handler that takes the session to the given stage may still run
MayRun(to) ==
  /\ pending[2] < MaxBetween
  /\ IF to \in {Identical, Shuffled}
     THEN stage \in {Created, ResizedOnce, Resized}
     ELSE IF to = Edited
     THEN stage \in {Created, ResizedOnce, Resized, Identical, Edited}
     ELSE IF to \in {Computed, ComputedBySolver} THEN stage \in BeforeQueries
     ELSE IF to = Clicked THEN stage \in BeforeQueries \cup {Computed}
     ELSE IF to = ClickedSecond THEN stage \in BeforeQueries \cup {ComputedBySolver}
     ELSE IF to = Cleared THEN stage \in BeforeQueries \cup {Computed, Clicked}
     ELSE FALSE

Ran(op, what, to) ==
  /\ stage' = to
  /\ lastOp' = op
  /\ threw' = what
  /\ pending' = IF pending = NoInput THEN NoInput ELSE << pending[1], pending[2] + 1 >>
  /\ UNCHANGED << validatorVars, generatorVars, solverVars, searchVars >>

\* the page before any handler has run, but for m, n and the matrix
PageIdle ==
  /\ pvc = <<>>
  /\ selectedAlternative = ""
  /\ vetoCoalition = <<>>
  /\ preferredAlternatives = <<>>
  /\ T = 0
  /\ T_size = 0
  /\ v_T = Zero
  /\ B = <<>>
  /\ lambda_B_over_P = Zero
  /\ successivelyEliminatedAlternatives = <<>>
  /\ lastOp = "onMount"
  /\ threw = "none"
  /\ edits = 0
  /\ stage = Created
  /\ pending = NoInput

PageInit ==
  /\ m = InitialM
  /\ n = InitialN
  /\ preferences = emptyMatrix(InitialM, InitialN)   \* onMount
  /\ PageIdle

\* no call of validateVoterPreferences under way
NoValidation ==
  /\ checkedPrefs = <<>>
  /\ checkedAlternatives = <<>>
  /\ checkedResult = << >>

\* no call of generateAlternatives under way
NoGeneration ==
  /\ requestedLength = 0
  /\ generatedAlternatives = << >>

\* no run of the solver under way
NoSolverRun ==
  /\ solverOfPvcTs = FALSE
  /\ roundVoter = 0
  /\ elimination = [remainingAlts |-> <<>>, remainingCounts |-> <<>>, threw |-> FALSE]
  /\ eliminated = <<>>
  /\ solverResult = << >>

\* no mask loop under way
NoSearch ==
  /\ searchVoters = 0
  /\ searchMask = 0
  /\ searchVisits = <<>>

Init ==
  /\ PageInit
  /\ NoValidation
  /\ NoGeneration
  /\ NoSolverRun
  /\ NoSearch

\* the input event of the m field or of the n field: bind:value assigns the
\* typed number, and nothing else runs
bindValue ==
  \E m_ \in 0..MaxM, n_ \in 0..MaxN :
    /\ pending = NoInput
    /\ stage \in ResizeFrom
    /\ (m_ = m) # (n_ = n)
    /\ m_ * n_ <= MaxCells
    /\ m' = m_
    /\ n' = n_
    /\ pending' = << IF m_ # m THEN "m" ELSE "n", 0 >>
    /\ lastOp' = "bind:value"
    /\ threw' = "none"
    /\ UNCHANGED << preferences, pvc, selectedAlternative, vetoCoalition,
                    preferredAlternatives, T, T_size, v_T, B, lambda_B_over_P,
                    successivelyEliminatedAlternatives, edits, stage,
                    validatorVars, generatorVars, solverVars, searchVars >>

\* the change event of the field: the grid is rebuilt for the m and n the
\* page now holds
onMNChange ==
  /\ pending # NoInput
  /\ preferences' = emptyMatrix(m, n)
  /\ pvc' = <<>>
  /\ selectedAlternative' = ""
  /\ vetoCoalition' = <<>>
  /\ preferredAlternatives' = <<>>
  /\ edits' = 0
  /\ pending' = NoInput
  /\ stage' = AfterResize
  /\ lastOp' = "onMNChange"
  /\ threw' = "none"
  /\ UNCHANGED << m, n, T, T_size, v_T, B, lambda_B_over_P,
                  successivelyEliminatedAlternatives,
                  validatorVars, generatorVars, solverVars, searchVars >>

setIdenticalPreferences ==
  /\ MayRun(Identical)
  /\ preferences' = [row \in 1..m |-> [col \in 1..n |-> getAlternatives[row]]]
  /\ edits' = 0
  /\ Ran("setIdenticalPreferences", "none", Identical)
  /\ UNCHANGED << m, n, pvc, selectedAlternative, vetoCoalition,
                  preferredAlternatives, T, T_size, v_T, B, lambda_B_over_P,
                  successivelyEliminatedAlternatives >>

\* every column gets some permutation of the alternatives
randomizePreferences ==
  /\ MayRun(Shuffled)
  /\ \E shuffled \in [1..n -> Permutations_(getAlternatives)] :
    /\ preferences' = [row \in 1..m |-> [col \in 1..n |-> shuffled[col][row]]]
    /\ edits' = 0
    /\ Ran("randomizePreferences", "none", Shuffled)
    /\ UNCHANGED << m, n, pvc, selectedAlternative, vetoCoalition,
                    preferredAlternatives, T, T_size, v_T, B, lambda_B_over_P,
                    successivelyEliminatedAlternatives >>

onPreferenceChange ==
  /\ MayRun(Edited)
  /\ edits < MaxEdits
  \* the cells are those of the grid on the page: {#each preferences as row}
  /\ \E row \in 0..(Len(preferences) - 1),
        col \in 0..(ColumnCount(preferences) - 1), value \in TypedValues :
    /\ preferences' =
         [preferences EXCEPT ![row + 1][col + 1] = toLowerCase(value)]
    /\ edits' = edits + 1
    /\ Ran("onPreferenceChange", "none", Edited)
    /\ UNCHANGED << m, n, pvc, selectedAlternative, vetoCoalition,
                    preferredAlternatives, T, T_size, v_T, B, lambda_B_over_P,
                    successivelyEliminatedAlternatives >>

\* the assignments of the page's computePVC, given what the two calls gave
storeComputed(classified, successivelyEliminatedPVC) ==
  IF classified.threw
  THEN /\ UNCHANGED << pvc, successivelyEliminatedAlternatives >>
       /\ Ran("computePVC", "computeVetoCoalition", Computed)
  ELSE /\ pvc' = classified.nonVetoableAlternatives
       /\ IF successivelyEliminatedPVC.threw
          THEN /\ UNCHANGED successivelyEliminatedAlternatives
               /\ Ran("computePVC", "computePVC", Computed)
          ELSE /\ successivelyEliminatedAlternatives' =
                    successivelyEliminatedPVC.result
               /\ Ran("computePVC", "none", Computed)

\* the Compute PVC button: the veto classifier, then the solver for the overlay
computePVC_page ==
  /\ MayRun(Computed)
  /\ storeComputed(vetoClassifier(preferences, getAlternatives),
                   computePVC(preferences, getAlternatives))
  /\ UNCHANGED << m, n, preferences, selectedAlternative, vetoCoalition,
                  preferredAlternatives, T, T_size, v_T, B, lambda_B_over_P,
                  edits >>

\* the assignment of the second script block's computePVC
storeSolved(result) ==
  IF result.threw
  THEN /\ UNCHANGED pvc
       /\ Ran("computePVC (second script)", "computePVC", ComputedBySolver)
  ELSE /\ pvc' = result.result
       /\ Ran("computePVC (second script)", "none", ComputedBySolver)

\* the Compute PVC button of the second script block: pvc is what the
\* successive-elimination solver returns
computePVC_page_solver ==
  /\ MayRun(ComputedBySolver)
  /\ storeSolved(computePVC_pvc_ts(preferences, getAlternatives))
  /\ UNCHANGED << m, n, preferences, selectedAlternative, vetoCoalition,
                  preferredAlternatives, T, T_size, v_T, B, lambda_B_over_P,
                  successivelyEliminatedAlternatives, edits >>

\* the assignments of onAlternativeClick, given the result of the search
storeResult(result) ==
  IF result.threw
  THEN /\ UNCHANGED << selectedAlternative, vetoCoalition, preferredAlternatives,
                       T, T_size, v_T, B, lambda_B_over_P >>
       /\ Ran("onAlternativeClick", "computeVetoCoalition", Clicked)
  ELSE /\ selectedAlternative' = result.selectedAlternative
       /\ vetoCoalition' = result.coalition
       /\ preferredAlternatives' = result.preferredAlternatives
       /\ T' = result.dashboardValues.T
       /\ T_size' = result.dashboardValues.T_size
       /\ v_T' = result.dashboardValues.v_T
       /\ B' = result.dashboardValues.B
       /\ lambda_B_over_P' = result.dashboardValues.lambda_B_over_P
       /\ Ran("onAlternativeClick", "none", Clicked)

onAlternativeClick ==
  /\ MayRun(Clicked)
  /\ \E i \in 1..m :
       storeResult(computeVetoCoalition(getAlternatives[i], preferences,
                                        getAlternatives, pvc))
  /\ UNCHANGED << m, n, preferences, pvc, successivelyEliminatedAlternatives,
                  edits >>

clearVetoCoalition ==
  /\ MayRun(Cleared)
  /\ selectedAlternative' = ""
  /\ vetoCoalition' = <<>>
  /\ preferredAlternatives' = <<>>
  /\ T' = 0
  /\ T_size' = 0
  /\ v_T' = Zero
  /\ B' = <<>>
  /\ lambda_B_over_P' = Zero
  /\ Ran("clearVetoCoalition", "none", Cleared)
  /\ UNCHANGED << m, n, preferences, pvc, successivelyEliminatedAlternatives,
                  edits >>

Next ==
  \/ bindValue
  \/ onMNChange
  \/ setIdenticalPreferences
  \/ randomizePreferences
  \/ onPreferenceChange
  \/ computePVC_page
  \/ onAlternativeClick
  \/ clearVetoCoalition

Spec == Init /\ [][Next]_vars

(***************************************************************************)
(* The second script block of +page.svelte, with the library it imports,   *)
(* src/lib/pvc.ts.  Its resize, fill and edit handlers have the text of    *)
(* the first block's; Compute PVC stores what the solver returns; a click  *)
(* on an alternative outside pvc stores the placeholder result of the      *)
(* library's computeVetoCoalition, whose v_T and lambda_B_over_P come from *)
(* Math.random(); there is no Clear Analysis button.                       *)
(***************************************************************************)
\* Math.floor(Math.random() * 10)
RandomDigits == {[num |-> k, den |-> 1] : k \in 0..9}

\* Math.random(): a double in [0, 1), here one of LambdaSteps values
RandomFractions == {[num |-> k, den |-> LambdaSteps] : k \in 0..(LambdaSteps - 1)}

\* computeVetoCoalition of src/lib/pvc.ts, given the two random numbers
computeVetoCoalition_pvc_ts(alternative, preferences_, alternatives, pvc_, digit, fraction) ==
  LET coalition == IF ColumnCount(preferences_) < 3 THEN << 0 >> ELSE << 0, 2 >>
      altIndex == altToIndex(alternatives, alternative)
      \* alternatives.slice(0, altIndex); slice(0, -1) drops the last element
      before == IF altIndex = -1
                THEN SubSeq(alternatives, 1, Len(alternatives) - 1)
                ELSE SubSeq(alternatives, 1, altIndex)
  IN [threw |-> FALSE,
      coalition |-> coalition,
      selectedAlternative |-> alternative,
      preferredAlternatives |-> before,
      dashboardValues |->
        [T |-> Len(coalition),
         T_size |-> Len(coalition),
         v_T |-> digit,
         B |-> before,
         lambda_B_over_P |-> fraction]]

\* the assignments of the second block's computeVetoCoalition
storeResult_second(result) ==
  /\ selectedAlternative' = result.selectedAlternative
  /\ vetoCoalition' = result.coalition
  /\ preferredAlternatives' = result.preferredAlternatives
  /\ T' = result.dashboardValues.T
  /\ T_size' = result.dashboardValues.T_size
  /\ v_T' = result.dashboardValues.v_T
  /\ B' = result.dashboardValues.B
  /\ lambda_B_over_P' = result.dashboardValues.lambda_B_over_P

\* the second block's onAlternativeClick: nothing for an alternative in pvc
onAlternativeClick_second ==
  /\ MayRun(ClickedSecond)
  /\ \E i \in 1..m :
       IF getAlternatives[i] \in Range(pvc)
       THEN UNCHANGED << selectedAlternative, vetoCoalition, preferredAlternatives,
                         T, T_size, v_T, B, lambda_B_over_P >>
       ELSE \E digit \in RandomDigits, fraction \in RandomFractions :
              storeResult_second(
                computeVetoCoalition_pvc_ts(getAlternatives[i], preferences,
                                            getAlternatives, pvc, digit, fraction))
  /\ Ran("onAlternativeClick (second script)", "none", ClickedSecond)
  /\ UNCHANGED << m, n, preferences, pvc, successivelyEliminatedAlternatives,
                  edits >>

NextSecond ==
  \/ bindValue
  \/ onMNChange
  \/ setIdenticalPreferences
  \/ randomizePreferences
  \/ onPreferenceChange
  \/ computePVC_page_solver
  \/ onAlternativeClick_second

SpecSecond == Init /\ [][NextSecond]_vars

(***************************************************************************)
(* validateVoterPreferences as a function of its own: the calls explored   *)
(* take the first k <= MaxValidated letters as alternatives and any        *)
(* ranking of at most k + 1 entries, each entry a letter (the letter after *)
(* the MaxValidated-th is in no universe), '' or a missing entry.          *)
(***************************************************************************)
CheckedEntries ==
  {"", Undefined} \cup {fromCharCode(CharCodeBase + i) : i \in 0..MaxValidated}

CheckedRankings ==
  UNION {[1..len -> CheckedEntries] : len \in 0..(MaxValidated + 1)}

InitValidate ==
  /\ PageInit
  /\ \E k \in 0..MaxValidated : checkedAlternatives = generateAlternatives(k)
  /\ checkedPrefs \in CheckedRankings
  /\ Len(checkedPrefs) <= Len(checkedAlternatives) + 1
  /\ checkedResult = << >>
  /\ NoGeneration
  /\ NoSolverRun
  /\ NoSearch

validate ==
  /\ checkedResult = << >>
  /\ checkedResult' = << validateVoterPreferences(checkedPrefs, checkedAlternatives) >>
  /\ UNCHANGED << pageVars, lastOp, threw, edits, stage, pending, checkedPrefs,
                  checkedAlternatives, generatorVars, solverVars, searchVars >>

SpecValidate == InitValidate /\ [][validate]_vars

(***************************************************************************)
(* generateAlternatives as a function of its own.  Its argument is a       *)
(* number (the page binds m to a number input): the calls explored take    *)
(* every multiple of 1/2 from -2 to MaxGenerated + 1/2.  Array.from reads  *)
(* { length: m } through ToLength: not a number or below 1 gives 0, a      *)
(* fraction is truncated.                                                  *)
(***************************************************************************)
ToLength(halves) == IF halves <= 0 THEN 0 ELSE halves \div 2

InitGenerate ==
  /\ PageInit
  /\ NoValidation
  /\ NoSolverRun
  /\ NoSearch
  /\ requestedLength \in (-4)..(2 * MaxGenerated + 1)
  /\ generatedAlternatives = << >>

generate ==
  /\ generatedAlternatives = << >>
  /\ generatedAlternatives' = << generateAlternatives(ToLength(requestedLength)) >>
  /\ UNCHANGED << pageVars, lastOp, threw, edits, stage, pending, validatorVars,
                  requestedLength, solverVars, searchVars >>

SpecGenerate == InitGenerate /\ [][generate]_vars

(***************************************************************************)
(* The successive-elimination solver round by round, on every valid        *)
(* profile of the bounds and for both versions of the function.  The loop  *)
(* "for (let voter = 0; voter < n; voter++)" is one step per iteration;    *)
(* the statements after the loop (or the throw of an assertion) are the    *)
(* last step.                                                              *)
(***************************************************************************)
InitSolver ==
  /\ m \in 1..MaxM
  /\ n \in 1..MaxN
  /\ m * n <= MaxCells \/ (m = InitialM /\ n = InitialN)
  /\ \E rankings \in [1..n -> Permutations_(getAlternatives)] :
       preferences = [row \in 1..m |-> [col \in 1..n |-> rankings[col][row]]]
  /\ PageIdle
  /\ NoValidation
  /\ NoGeneration
  /\ NoSearch
  /\ solverOfPvcTs \in BOOLEAN
  /\ roundVoter = 0
  /\ elimination = initialRun(m, n)
  /\ eliminated = <<>>
  /\ solverResult = << >>

\* one iteration of the loop over the voters
solverRound ==
  /\ solverResult = << >>
  /\ ~elimination.threw
  /\ roundVoter < n
  /\ eliminated' = toEliminateOf(elimination, voterPrefsOf(preferences, getAlternatives, roundVoter), reducedNumeratorOf(m, n))
  /\ elimination' = eliminationRound(elimination, voterPrefsOf(preferences, getAlternatives, roundVoter), reducedNumeratorOf(m, n), solverOfPvcTs)
  /\ roundVoter' = roundVoter + 1
  /\ UNCHANGED << pageVars, lastOp, threw, edits, stage, pending, validatorVars,
                  generatorVars, solverOfPvcTs, solverResult, searchVars >>

\* the end of the loop, or an assertion that threw
solverReturn ==
  /\ solverResult = << >>
  /\ elimination.threw \/ ~(roundVoter < n)
  /\ solverResult' = << collapseClones(elimination, getAlternatives, solverOfPvcTs) >>
  /\ UNCHANGED << pageVars, lastOp, threw, edits, stage, pending, validatorVars,
                  generatorVars, solverOfPvcTs, roundVoter, elimination,
                  eliminated, searchVars >>

NextSolver == solverRound \/ solverReturn

SpecSolver == InitSolver /\ [][NextSolver]_vars

(***************************************************************************)
(* The mask loop of computeVetoCoalition on its own, for every number of   *)
(* voters up to MaxSearchVoters (the n input of the page has no max): one  *)
(* step per iteration of "for (let coalitionMask = 1; coalitionMask <      *)
(* (1 << n); coalitionMask++)", which builds the coalition of the mask.    *)
(* Only the first MaxVisits iterations of a loop are explored.             *)
(***************************************************************************)
InitSearch ==
  /\ PageInit
  /\ NoValidation
  /\ NoGeneration
  /\ NoSolverRun
  /\ searchVoters \in 1..MaxSearchVoters
  /\ searchMask = 1
  /\ searchVisits = <<>>

\* one iteration: the inner loop over the voters builds the coalition
maskIteration ==
  /\ searchMask < ShiftLeftOne(searchVoters)
  /\ searchMask <= MaxVisits
  /\ searchVisits' = Append(searchVisits, coalitionOfMask(searchMask, searchVoters))
  /\ searchMask' = searchMask + 1
  /\ UNCHANGED << pageVars, lastOp, threw, edits, stage, pending, validatorVars,
                  generatorVars, solverVars, searchVoters >>

SpecSearch == InitSearch /\ [][maskIteration]_vars

(***************************************************************************)
(* Properties.  The profile is the grid on the page: voter v's ranking is  *)
(* column v, read from the top row down.  The definitions below say what   *)
(* the specification says, without the operators of the model.             *)
(***************************************************************************)
\* the voters of the profile are the columns of the grid
VoterCount == ColumnCount(preferences)

Voters == 0..(VoterCount - 1)

ranking(voter) == columnOf(preferences, voter)

\* r lists every symbol of the universe exactly once
IsPermutationOf(r, universe) ==
  Len(r) = Len(universe) /\ Range(r) = Range(universe)

ValidProfile ==
  /\ m >= 1
  /\ VoterCount >= 1
  /\ \A voter \in Voters : IsPermutationOf(ranking(voter), getAlternatives)

\* the alternatives a voter with a valid ranking puts strictly above the target
StrictlyAbove(voter, target) ==
  {ranking(voter)[k] : k \in {j \in 1..m : \E i \in (j + 1)..m : ranking(voter)[i] = target}}

\* the alternatives every member of the coalition puts strictly above the target
UnanimouslyAbove(members, target) ==
  {alt \in Range(getAlternatives) : \A voter \in members : alt \in StrictlyAbove(voter, target)}

\* |T| * (m - 1) >= n * (m - |B|)
VetoInequality(members, blocking) ==
  Cardinality(members) * (m - 1) >= VoterCount * (m - Cardinality(blocking))

Vetoes(members, target) ==
  /\ members # {}
  /\ UnanimouslyAbove(members, target) # {}
  /\ VetoInequality(members, UnanimouslyAbove(members, target))

HasVetoingCoalition(target) == \E members \in SUBSET Voters : Vetoes(members, target)

AllIdentical == \A voter \in Voters : ranking(voter) = ranking(0)

Computed_ == lastOp = "computePVC"

Queried == lastOp = "onAlternativeClick"

\* C1: for a valid profile with m >= 1 and n >= 1 the PVC the page computes
\* holds only alternatives of the universe, and an alternative is in it
\* exactly when computeVetoCoalition returns an empty coalition for it.
C1_PvcIsTheAlternativesWithoutCoalition ==
  (Computed_ /\ ValidProfile) =>
    /\ threw # "computeVetoCoalition"
    /\ Range(pvc) \subseteq Range(getAlternatives)
    /\ \A i \in 1..m :
         (getAlternatives[i] \in Range(pvc))
           <=> (computeVetoCoalition(getAlternatives[i], preferences,
                                     getAlternatives, pvc).coalition = <<>>)

C1_Witness ==
  /\ Computed_ /\ ValidProfile /\ threw = "none"
  /\ m >= 3 /\ VoterCount >= 2 /\ ~AllIdentical
  /\ pvc # <<>> /\ Len(pvc) < m

\* C2: for a valid profile, a non-empty coalition T returned for a target
\* comes with B being exactly the alternatives every member of T ranks
\* strictly above the target, |B| > 0, and |T| * (m - 1) >= n * (m - |B|).
C2_ReturnedCoalitionVetoes ==
  (Queried /\ ValidProfile /\ vetoCoalition # <<>>) =>
    /\ Range(vetoCoalition) \subseteq Voters
    /\ Cardinality(Range(vetoCoalition)) = Len(vetoCoalition)
    /\ Cardinality(Range(preferredAlternatives)) = Len(preferredAlternatives)
    /\ Range(preferredAlternatives)
         = UnanimouslyAbove(Range(vetoCoalition), selectedAlternative)
    /\ Len(preferredAlternatives) > 0
    /\ VetoInequality(Range(vetoCoalition), Range(preferredAlternatives))

C2_Witness ==
  /\ Queried /\ ValidProfile /\ threw = "none"
  /\ vetoCoalition # <<>> /\ Len(vetoCoalition) < VoterCount
  /\ Len(preferredAlternatives) >= 2
  /\ Range(preferredAlternatives)
       = UnanimouslyAbove(Range(vetoCoalition), selectedAlternative)

\* C3: for a valid profile, whenever some non-empty set of voters has a
\* non-empty set of unanimously preferred alternatives satisfying the veto
\* inequality for the target, computeVetoCoalition returns a non-empty
\* coalition; it returns the empty coalition and empty B only when there is
\* no such set.
C3_CoalitionFoundWheneverOneExists ==
  (Queried /\ ValidProfile) =>
    /\ threw = "none"
    /\ (vetoCoalition # <<>>) <=> HasVetoingCoalition(selectedAlternative)
    /\ (preferredAlternatives = <<>>) <=> (vetoCoalition = <<>>)

C3_Witness ==
  /\ Queried /\ ValidProfile /\ threw = "none"
  /\ VoterCount >= 2 /\ m >= 3
  /\ HasVetoingCoalition(selectedAlternative)
  /\ \E voter \in Voters : ~Vetoes({voter}, selectedAlternative)
  /\ vetoCoalition # <<>>

\* C4: when every voter submits the same ranking (m >= 1, n >= 1) the PVC is
\* exactly the alternative at the top of that ranking.
C4_IdenticalRankingsLeaveTheTop ==
  (Computed_ /\ ValidProfile /\ AllIdentical) =>
    /\ threw # "computeVetoCoalition"
    /\ pvc = << preferences[1][1] >>

C4_Witness ==
  /\ Computed_ /\ ValidProfile /\ AllIdentical
  /\ m >= 3 /\ VoterCount >= 2
  /\ preferences[1][1] # getAlternatives[1]
  /\ pvc = << preferences[1][1] >>

\* C5: with a single alternative and at least one voter the PVC is that
\* alternative: no coalition vetoes it.
C5_SingleAlternativeIsThePvc ==
  (Computed_ /\ ValidProfile /\ m = 1) =>
    /\ threw # "computeVetoCoalition"
    /\ pvc = getAlternatives
    /\ ~HasVetoingCoalition(getAlternatives[1])
    /\ computeVetoCoalition(getAlternatives[1], preferences, getAlternatives,
                            pvc).coalition = <<>>

C5_Witness ==
  /\ Computed_ /\ ValidProfile /\ m = 1 /\ VoterCount >= 2
  /\ pvc = << "a" >>

\* a column whose cells are all symbols of the universe but which is not a
\* permutation of it (it repeats one symbol and omits another)
RepeatsAndOmits(voter) ==
  /\ Range(ranking(voter)) \subseteq Range(getAlternatives)
  /\ ~IsPermutationOf(ranking(voter), getAlternatives)

InvalidButKnown ==
  /\ m >= 1
  /\ VoterCount >= 1
  /\ Len(preferences) = m
  /\ \A voter \in Voters : Range(ranking(voter)) \subseteq Range(getAlternatives)
  /\ \E voter \in Voters : RepeatsAndOmits(voter)

\* C6: when some voter's ranking is not a permutation of the universe although
\* all its symbols are known, computing refuses: neither the veto classifier
\* nor the solver hands back a set of alternatives.
C6_InvalidRankingIsRefused ==
  (Computed_ /\ InvalidButKnown) => threw = "computeVetoCoalition"

\* C7: with no alternatives or no voters the PVC is empty and
\* computeVetoCoalition returns the empty coalition for any target without
\* failing, for the classifier and for the solver.
C7_EmptyProfileGivesEmptyPvc ==
  (Computed_ /\ (m = 0 \/ VoterCount = 0)) =>
    /\ threw = "none"
    /\ pvc = <<>>
    /\ successivelyEliminatedAlternatives = <<>>
    /\ \A i \in 1..m :
         LET result == computeVetoCoalition(getAlternatives[i], preferences,
                                            getAlternatives, pvc)
         IN ~result.threw /\ result.coalition = <<>>

\* C8: on a valid profile with m >= 1 and n >= 1 the solver finishes without
\* a failed assertion and returns a non-empty subset of the universe, m = 1
\* included.  Both versions of the solver are held to it.
C8_SolverReturnsNonEmptySubset ==
  (Computed_ /\ ValidProfile) =>
    /\ threw = "none"
    /\ successivelyEliminatedAlternatives # <<>>
    /\ Range(successivelyEliminatedAlternatives) \subseteq Range(getAlternatives)
    /\ LET older == computePVC_pvc_ts(preferences, getAlternatives)
       IN /\ ~older.threw
          /\ older.result # <<>>
          /\ Range(older.result) \subseteq Range(getAlternatives)

UnknownCell ==
  /\ m >= 1
  /\ VoterCount >= 1
  /\ Len(preferences) = m
  /\ \E row \in 1..m : \E col \in 1..VoterCount :
       preferences[row][col] \notin Range(getAlternatives)

\* C9: when a cell holds a symbol that is not in the universe (an empty cell
\* included) the solver returns the empty result as a value and does not
\* throw.  Both versions of the solver are held to it.
C9_UnknownSymbolGivesEmptyResult ==
  UnknownCell =>
    /\ computePVC(preferences, getAlternatives) = [threw |-> FALSE, result |-> <<>>]
    /\ computePVC_pvc_ts(preferences, getAlternatives)
         = [threw |-> FALSE, result |-> <<>>]

Validated == checkedResult # << >>

\* C10: validateVoterPreferences returns true exactly when the ranking is a
\* permutation of the universe (right length, no repeat, no empty entry, no
\* foreign symbol); otherwise it returns false, and its arguments are as
\* they were.
C10_ValidatorAcceptsExactlyPermutations ==
  Validated =>
    checkedResult = << IsPermutationOf(checkedPrefs, checkedAlternatives) >>

C10_Witness ==
  /\ Validated
  /\ Len(checkedPrefs) = Len(checkedAlternatives)
  /\ Len(checkedPrefs) >= 3
  /\ Range(checkedPrefs) \subseteq Range(checkedAlternatives)
  /\ Cardinality(Range(checkedPrefs)) < Len(checkedPrefs)
  /\ checkedResult = << FALSE >>

\* the condition of the README and of the page's explanation,
\* |T|/n >= 1 - |B|/m, cleared of its denominators
DocumentedInequality(members, blocking) ==
  Cardinality(members) * m >= VoterCount * (m - Cardinality(blocking))

DocumentedVeto(members, target) ==
  /\ members # {}
  /\ UnanimouslyAbove(members, target) # {}
  /\ DocumentedInequality(members, UnanimouslyAbove(members, target))

HasDocumentedCoalition(target) ==
  \E members \in SUBSET Voters : DocumentedVeto(members, target)

\* C12: the veto condition applied is the documented |T|/n >= 1 - |B|/m: on
\* a valid profile the coalition returned for a target satisfies it, a
\* coalition is returned exactly when some non-empty coalition (with a
\* non-empty B) satisfies it, and an alternative is in the PVC exactly when
\* none does.
C12_DocumentedConditionIsApplied ==
  /\ (Queried /\ ValidProfile) =>
       /\ (vetoCoalition # <<>>) <=> HasDocumentedCoalition(selectedAlternative)
       /\ (vetoCoalition # <<>>) =>
            DocumentedInequality(Range(vetoCoalition), Range(preferredAlternatives))
  /\ (Computed_ /\ ValidProfile) =>
       \A i \in 1..m :
         (getAlternatives[i] \in Range(pvc))
           <=> ~HasDocumentedCoalition(getAlternatives[i])

\* C13: after a query the voting-power scalar v_T equals |T|/n and the
\* proportion scalar lambda_B_over_P equals |B|/m, for the coalition T and
\* the set B returned (so that 1 - lambda_B_over_P is 1 - |B|/m).
C13_DashboardScalars ==
  (Queried /\ threw = "none" /\ m >= 1 /\ VoterCount >= 1) =>
    /\ v_T.den # 0
    /\ v_T.num * VoterCount = Len(vetoCoalition) * v_T.den
    /\ lambda_B_over_P.den # 0
    /\ lambda_B_over_P.num * m = Len(preferredAlternatives) * lambda_B_over_P.den

\* the scenario m = 4, n = 2, both voters a > b > c > d
IdenticalExample ==
  /\ m = 4
  /\ VoterCount = 2
  /\ preferences = [row \in 1..4 |-> [col \in 1..2 |-> getAlternatives[row]]]

\* C14: when all n voters have the same ranking, the query for an alternative
\* that is not at the top returns the coalition of all n voters and B equal
\* to the alternatives ranked above the target; for m = 4, n = 2 and a > b >
\* c > d the PVC is {a} and the query for d returns {0, 1} with B = {a, b, c}.
C14_IdenticalRankingsGiveTheGrandCoalition ==
  /\ (Queried /\ ValidProfile /\ AllIdentical
        /\ selectedAlternative # preferences[1][1]) =>
       /\ vetoCoalition = [i \in 1..VoterCount |-> i - 1]
       /\ Range(preferredAlternatives) = StrictlyAbove(0, selectedAlternative)
       /\ Len(preferredAlternatives) = Cardinality(StrictlyAbove(0, selectedAlternative))
  /\ (Computed_ /\ IdenticalExample) => pvc = << "a" >>
  /\ (Queried /\ IdenticalExample /\ selectedAlternative = "d") =>
       /\ vetoCoalition = << 0, 1 >>
       /\ Range(preferredAlternatives) = {"a", "b", "c"}

C14_Witness ==
  /\ Queried /\ IdenticalExample /\ threw = "none"
  /\ selectedAlternative = "d"
  /\ vetoCoalition = << 0, 1 >>
  /\ preferredAlternatives = << "a", "b", "c" >>

\* C17 as stated: for the page's m and n, if a coalition of size t passes the
\* veto test with a preferred set of size b, every coalition of size t' >= t
\* passes it with every smaller preferred set (b' <= b).
C17_SmallerSetStillVetoes ==
  (Queried /\ ValidProfile) =>
    \A t \in 1..VoterCount : \A b \in 0..m :
      vetoTest(t, b, m, VoterCount) =>
        \A t2 \in t..VoterCount : \A b2 \in 0..b : vetoTest(t2, b2, m, VoterCount)

\* C17 as amended: for the page's m and n, if a coalition of size t passes
\* the veto test with a preferred set of size b, every coalition of size
\* t' >= t passes it with every preferred set at least as large (b' >= b).
C17_LargerSetStillVetoes ==
  (Queried /\ ValidProfile) =>
    \A t \in 1..VoterCount : \A b \in 0..m :
      vetoTest(t, b, m, VoterCount) =>
        \A t2 \in t..VoterCount : \A b2 \in b..m : vetoTest(t2, b2, m, VoterCount)

C17_Witness ==
  /\ Queried /\ ValidProfile /\ threw = "none"
  /\ vetoCoalition # <<>>
  /\ Len(vetoCoalition) < VoterCount
  /\ Len(preferredAlternatives) >= 2
  /\ vetoTest(Len(vetoCoalition), Len(preferredAlternatives), m, VoterCount)
  /\ vetoTest(Len(vetoCoalition) + 1, Len(preferredAlternatives), m, VoterCount)

\* three voters a > b > c, b > a > c, b > a > c
SeparatingProfile ==
  << << "a", "b", "b" >>, << "b", "a", "a" >>, << "c", "c", "c" >> >>

\* C18: the two procedures do not always agree: on the valid profile
\* a > b > c, b > a > c, b > a > c (m = 3, n = 3) the set the
\* successive-elimination solver returns differs from the veto-based PVC.
C18_ProceduresDisagreeOnAProfile ==
  (Computed_ /\ preferences = SeparatingProfile /\ m = 3) =>
    /\ ValidProfile
    /\ m >= 2
    /\ threw = "none"
    /\ Range(successivelyEliminatedAlternatives) # Range(pvc)

C18_Witness ==
  /\ Computed_ /\ preferences = SeparatingProfile /\ ValidProfile
  /\ threw = "none"
  /\ pvc = << "a", "b" >>
  /\ successivelyEliminatedAlternatives = << "b" >>

ComputedByEither == lastOp \in {"computePVC", "computePVC (second script)"}

\* C15: after the page's Compute PVC action on a valid profile the stored pvc
\* holds exactly the alternatives for which computeVetoCoalition finds no
\* coalition; the result of the successive-elimination solver goes to the
\* overlay variable only and never into pvc.
C15_SolverNeverFeedsThePvc ==
  (ComputedByEither /\ ValidProfile /\ threw = "none") =>
    \A i \in 1..m :
      (getAlternatives[i] \in Range(pvc))
        <=> (computeVetoCoalition(getAlternatives[i], preferences,
                                  getAlternatives, pvc).coalition = <<>>)

\* the letters a..z
Alphabet ==
  << "a", "b", "c", "d", "e", "f", "g", "h", "i", "j", "k", "l", "m",
     "n", "o", "p", "q", "r", "s", "t", "u", "v", "w", "x", "y", "z" >>

Generated == generatedAlternatives # << >>

\* C16: for an integer 0 <= m <= 26 generateAlternatives(m) returns the first
\* m letters of a..z in order, pairwise distinct; for m above 26 it fails:
\* it does not return a sequence of m symbols.
C16_GenerateAlternatives ==
  (Generated /\ requestedLength >= 0 /\ requestedLength % 2 = 0) =>
    IF requestedLength \div 2 <= Len(Alphabet)
    THEN /\ generatedAlternatives[1] = SubSeq(Alphabet, 1, requestedLength \div 2)
         /\ Cardinality(Range(generatedAlternatives[1])) = requestedLength \div 2
    ELSE Len(generatedAlternatives[1]) # requestedLength \div 2

\* (m - 1) / n in lowest terms, as << p, q >>: q is the least positive number
\* of copies for which q * (m - 1) / n is whole
LowestTerms ==
  CHOOSE pq \in (0..m) \X (1..n) :
    /\ pq[1] * n = pq[2] * (m - 1)
    /\ \A fewer \in 1..(pq[2] - 1) : (fewer * (m - 1)) % n # 0

\* the row at which a voter (0-based) ranks the alternative of an index
RowOf(voter, altIndex) ==
  CHOOSE row \in 1..m : preferences[row][voter + 1] = getAlternatives[altIndex + 1]

RoundDone == roundVoter >= 1 /\ m >= 2

\* C19: on a valid profile with m >= 2 the rounds run once per voter in index
\* order 0..n-1 (the solver returns after round n-1 and not before); after the
\* round of voter v, exactly p copies have been removed in it and p * (v + 1)
\* in all, and every copy removed in the round is ranked by v no higher than
\* every copy that remains.
C19_RoundRemovesTheLeastPreferred ==
  /\ RoundDone =>
       /\ ~elimination.threw
       /\ roundVoter <= n
       /\ Len(eliminated) = LowestTerms[1]
       /\ Len(elimination.remainingAlts) = m * LowestTerms[2] - roundVoter * LowestTerms[1]
       /\ \A gone \in Range(eliminated), kept \in Range(elimination.remainingAlts) :
            RowOf(roundVoter - 1, gone) >= RowOf(roundVoter - 1, kept)
  /\ (solverResult # << >> /\ m >= 2) => roundVoter = n

\* two rounds done, the last one removing copies of two alternatives while
\* two alternatives remain
C19_Witness ==
  /\ RoundDone
  /\ roundVoter >= 2
  /\ Cardinality(Range(eliminated)) >= 2
  /\ Cardinality(Range(elimination.remainingAlts)) >= 2

RoundStart == solverResult = << >> /\ roundVoter < n /\ m >= 2

\* C20: on a valid profile with m >= 2 and n >= 1, at the start of every round
\* at least 2 duplicated items remain, and no run ends with an assertion that
\* failed.
C20_TwoItemsAtEveryRoundStart ==
  /\ RoundStart => (Len(elimination.remainingAlts) >= 2 /\ ~elimination.threw)
  /\ (solverResult # << >> /\ m >= 2) => ~solverResult[1].threw

\* the last round of src/lib/pvc.ts's solver starts with exactly 2 items
C20_Witness ==
  /\ RoundStart
  /\ solverOfPvcTs
  /\ n >= 2
  /\ roundVoter = n - 1
  /\ Len(elimination.remainingAlts) = 2

Resized_ == lastOp = "onMNChange"

\* a dashboard scalar that is the number 0
IsZero(x) == x.num = 0 /\ x.den # 0

\* C21: after a change of m or n the grid is a fresh m-row by n-column grid
\* of empty cells and nothing computed for the previous profile remains: pvc,
\* selected alternative, coalition, preferred alternatives, the dashboard
\* scalars and the successive-elimination overlay are all cleared.
C21_ResizeClearsEveryResult ==
  Resized_ =>
    /\ Len(preferences) = m
    /\ \A row \in 1..m : preferences[row] = [col \in 1..n |-> ""]
    /\ pvc = <<>>
    /\ selectedAlternative = ""
    /\ vetoCoalition = <<>>
    /\ preferredAlternatives = <<>>
    /\ T = 0
    /\ T_size = 0
    /\ IsZero(v_T)
    /\ B = <<>>
    /\ IsZero(lambda_B_over_P)
    /\ successivelyEliminatedAlternatives = <<>>

\* C22: for every valid profile with m >= 2 and n >= 1, every alternative the
\* successive-elimination solver returns is in the veto-based PVC: it has no
\* vetoing coalition.
C22_SolverResultIsInTheVetoPvc ==
  (Computed_ /\ ValidProfile /\ m >= 2) =>
    /\ threw = "none"
    /\ Range(successivelyEliminatedAlternatives) \subseteq Range(pvc)
    /\ \A survivor \in Range(successivelyEliminatedAlternatives) :
         ~HasVetoingCoalition(survivor)

\* a profile where the solver keeps strictly less than the veto-based PVC,
\* which itself leaves an alternative out
C22_Witness ==
  /\ Computed_ /\ ValidProfile /\ m >= 3 /\ VoterCount >= 2
  /\ threw = "none"
  /\ successivelyEliminatedAlternatives # <<>>
  /\ Range(successivelyEliminatedAlternatives) # Range(pvc)
  /\ Len(pvc) < m

\* C23: for every valid profile with m >= 1 and n >= 1 the veto-based PVC is
\* non-empty: at least one alternative has no veto coalition.
C23_VetoPvcIsNonEmpty ==
  (Computed_ /\ ValidProfile) =>
    /\ threw # "computeVetoCoalition"
    /\ pvc # <<>>
    /\ \E alt \in Range(getAlternatives) : ~HasVetoingCoalition(alt)

\* a profile whose PVC is a single alternative although the rankings differ
C23_Witness ==
  /\ Computed_ /\ ValidProfile /\ m >= 3 /\ VoterCount >= 2
  /\ ~AllIdentical
  /\ Len(pvc) = 1

\* the bitmask of a set of voters: voter i is bit i
RECURSIVE MaskValue(_)
MaskValue(members) ==
  IF members = {} THEN 0
  ELSE LET voter == CHOOSE v \in members : TRUE
       IN 2 ^ voter + MaskValue(members \ {voter})

VetoingSubsets(target) == {members \in SUBSET Voters : Vetoes(members, target)}

\* the stored coalition, of the given bitmask, vetoes with the stored B, and
\* no vetoing subset has a greater bitmask (none vetoes when nothing is stored)
GreatestVetoingMask(stored, storedMask) ==
  /\ \A members \in SUBSET Voters :
       MaskValue(members) > storedMask => ~Vetoes(members, selectedAlternative)
  /\ stored # {} =>
       /\ Vetoes(stored, selectedAlternative)
       /\ Len(vetoCoalition) = Cardinality(stored)
       /\ Range(preferredAlternatives) = UnanimouslyAbove(stored, selectedAlternative)

\* C24: computeVetoCoalition does not stop at the first success: among all
\* non-empty voter subsets that pass the veto test with non-empty B it returns
\* the one with the greatest bitmask value, with that subset's B.
C24_GreatestMaskIsReturned ==
  (Queried /\ ValidProfile) =>
    /\ threw = "none"
    /\ GreatestVetoingMask(Range(vetoCoalition), MaskValue(Range(vetoCoalition)))

\* three or more subsets veto, and the one returned is the last of them in
\* scan order
C24_Witness ==
  /\ Queried /\ ValidProfile /\ threw = "none"
  /\ Cardinality(VetoingSubsets(selectedAlternative)) >= 3
  /\ Range(vetoCoalition) \in VetoingSubsets(selectedAlternative)
  /\ \E members \in VetoingSubsets(selectedAlternative) :
       MaskValue(members) < MaskValue(Range(vetoCoalition))

Returned == solverResult # << >>

\* C25: on a valid profile with m >= 2, after k completed rounds exactly
\* m*q - k*p duplicated items remain (p/q = (m-1)/n in lowest terms), so after
\* all n rounds exactly q items remain and the returned set has between 1 and
\* q alternatives.
C25_ItemsLeftAfterEachRound ==
  m >= 2 =>
    /\ Len(elimination.remainingAlts) = m * LowestTerms[2] - roundVoter * LowestTerms[1]
    /\ Returned =>
         /\ ~solverResult[1].threw
         /\ Len(elimination.remainingAlts) = LowestTerms[2]
         /\ Len(solverResult[1].result) >= 1
         /\ Len(solverResult[1].result) <= LowestTerms[2]
         /\ Cardinality(Range(solverResult[1].result)) = Len(solverResult[1].result)

\* a run of several rounds that returns as many alternatives as items remain
C25_Witness ==
  /\ Returned
  /\ m >= 3
  /\ roundVoter >= 2
  /\ LowestTerms[2] >= 2
  /\ Len(solverResult[1].result) = LowestTerms[2]

\* the non-empty coalitions the mask loop builds for n voters
Coalitions == {coalitionOfMask(coalitionMask, VoterCount) : coalitionMask \in 1..(2 ^ VoterCount - 1)}

\* what checkVetoCoalition reports for the alternative clicked
Report(coalition) ==
  checkVetoCoalition(selectedAlternative, coalition, preferences, getAlternatives)

\* C26: the |B| > 0 guard never changes the outcome: for m >= 1, n >= 1 and
\* any coalition size 1 <= t <= n the veto test fails with an empty B, so
\* checkVetoCoalition never reports canVeto = TRUE with an empty
\* preferredAlternatives.
C26_EmptyPreferredSetNeverVetoes ==
  (Queried /\ m >= 1 /\ VoterCount >= 1) =>
    /\ \A t \in 1..VoterCount : ~vetoTest(t, 0, m, VoterCount)
    /\ \A coalition \in Coalitions :
         Report(coalition).canVeto => Report(coalition).preferredAlternatives # <<>>

\* the click asked about the top of identical rankings: all voters together
\* have the greatest veto power and an empty B, and the report is "no veto"
C26_Witness ==
  /\ Queried /\ ValidProfile /\ threw = "none"
  /\ m >= 3 /\ VoterCount >= 2
  /\ UnanimouslyAbove(Voters, selectedAlternative) = {}
  /\ \E coalition \in Coalitions :
       /\ Len(coalition) = VoterCount
       /\ ~Report(coalition).threw
       /\ ~Report(coalition).canVeto
       /\ Report(coalition).preferredAlternatives = <<>>
  /\ \E coalition \in Coalitions : Report(coalition).canVeto

\* x = 2^k, without computing 2^k
RECURSIVE IsPowerOfTwo(_, _)
IsPowerOfTwo(x, k) ==
  IF k = 0 THEN x = 1
  ELSE x > 0 /\ x % 2 = 0 /\ IsPowerOfTwo(x \div 2, k - 1)

\* the loop condition is false: the loop is over
SearchDone == ~(searchMask < ShiftLeftOne(searchVoters))

\* C27: for every n >= 1 the loop bound 1 << n equals 2^n and every
\* membership test 1 << voter (voter < n) equals 2^voter, and when the loop
\* is over it has visited every non-empty subset of the n voters exactly once.
C27_EverySubsetIsVisitedOnce ==
  searchVoters >= 1 =>
    /\ IsPowerOfTwo(ShiftLeftOne(searchVoters), searchVoters)
    /\ \A voter \in 0..(searchVoters - 1) : IsPowerOfTwo(ShiftLeftOne(voter), voter)
    /\ SearchDone =>
         /\ {Range(searchVisits[i]) : i \in 1..Len(searchVisits)}
              = (SUBSET (0..(searchVoters - 1))) \ {{}}
         /\ \A i, k \in 1..Len(searchVisits) :
              i # k => Range(searchVisits[i]) # Range(searchVisits[k])

\* the list and the map agree: as many copies in the list as the map says
Consistent(st) ==
  \A alt \in 0..(m - 1) :
    Cardinality({k \in 1..Len(st.remainingAlts) : st.remainingAlts[k] = alt})
      = st.remainingCounts[alt]

\* what the round about to start removes, in order
NextToEliminate ==
  toEliminateOf(elimination, voterPrefsOf(preferences, getAlternatives, roundVoter), reducedNumeratorOf(m, n))

\* the run after the first j removals of the round about to start
AfterRemovals(j) == eliminateFrom(elimination, SubSeq(NextToEliminate, 1, j), 1)

RoundAhead == solverResult = << >> /\ ~elimination.threw /\ roundVoter < n

\* C28: on a valid profile the list remainingAlts and the map remainingCounts
\* stay consistent after every single removal (for each alternative the number
\* of its copies in the list equals its entry in the map, absent meaning 0),
\* and the removal lookup indexOf never returns -1.
C28_ListAndMapStayConsistent ==
  /\ Consistent(elimination)
  /\ RoundAhead =>
       \A j \in 0..Len(NextToEliminate) :
         /\ ~AfterRemovals(j).threw
         /\ Consistent(AfterRemovals(j))
         /\ j < Len(NextToEliminate) =>
              IndexOf(AfterRemovals(j).remainingAlts, NextToEliminate[j + 1]) # -1

\* a later round that removes the last copy of one alternative and leaves
\* copies of another one it removes from
C28_Witness ==
  /\ RoundAhead
  /\ roundVoter >= 1
  /\ Len(NextToEliminate) >= 2
  /\ \E gone, less \in Range(NextToEliminate) :
       /\ AfterRemovals(Len(NextToEliminate)).remainingCounts[gone] = 0
       /\ AfterRemovals(Len(NextToEliminate)).remainingCounts[less] >= 1

====
